---- MODULE Spec2Model ----
(***************************************************************************)
(* Model of the WGAN-GP training engine of audio_synthesis                 *)
(* (src/models/WGAN.py): the construction of the derived dataset view, the *)
(* per-step update _train_step, the outer loop train() and the default     *)
(* loss strategy _compute_losses.                                          *)
(*                                                                         *)
(* Examples of the raw dataset are identified by their index 1..n.  The    *)
(* generator, the discriminator and the optimizers are opaque: parameters  *)
(* are represented by the number of apply_gradients calls made on them.    *)
(*                                                                         *)
(* Spec is a run of train() for every configuration of the grid below;     *)
(* LossSpec applies _compute_losses to bounded score and gradient batches. *)
(***************************************************************************)
EXTENDS Integers, Sequences, FiniteSets, TLC

\* ------------------------------------------------------------------ bounds
MaxN == 3
MaxBatch == 3
MaxRatio == 3
MaxEpochs == 2
MaxSave == 2
MaxOutDim == 2
MaxShuffles == 3
MaxLossBatch == 2
MaxScore == 1
MaxGrad == 2
GradWidth == 2
MantissaBits == 3
MaxInterpBatch == 2
InterpWidth == 2
MaxFrameLength == 8
MaxMelBins == 2
PhaseUnits == 2
MaxFrames == 2
MaxPhaseBins == 2
MaxWaveLen == 6
MaxFrameStep == 2

\* ---------------------------------------------------------------- helpers
Min(a, b) == IF a < b THEN a ELSE b

RECURSIVE SeqSum(_)
SeqSum(s) == IF s = <<>> THEN 0 ELSE Head(s) + SeqSum(Tail(s))

\* raw_dataset[lo:hi] on a dataset of n examples (python slice, 0-based).
Slice(n, lo, hi) == [k \in 1..(Min(hi, n) - Min(lo, n)) |-> Min(lo, n) + k]

Rotate(n, k) == [j \in 1..n |-> ((j - 1 + k) % n) + 1]
Reverse(s) == [j \in 1..Len(s) |-> s[Len(s) + 1 - j]]

\* Orders in which shuffle(buffer_size) may emit the n examples of one pass.
\* The buffer (1000) holds the whole dataset here, so every permutation is a
\* possible outcome; the model explores the rotations and their reversals.
ShuffleOutcomes(n) ==
    LET K == Min(n, MaxShuffles)
    IN  {Rotate(n, k) : k \in 0..(K - 1)} \cup
        {Reverse(Rotate(n, k)) : k \in 0..(K - 1)}

\* ---------------------------------------------------------- configuration
\* The arguments of WGAN.__init__ that the control flow depends on.
\* checkpoint_dir and fn_save_examples are modelled by their truthiness;
\* d_real_dim / d_fake_dim are the trailing dimension of the discriminator's
\* output on the real and on the generated batch.
GridConfigs ==
    [n : 0..MaxN, batch_size : 1..MaxBatch,
     generator_training_ratio : 1..MaxRatio,
     epochs : 0..MaxEpochs, epochs_per_save : 1..MaxSave,
     checkpoint_dir : BOOLEAN, fn_save_examples : BOOLEAN,
     d_real_dim : 1..MaxOutDim, d_fake_dim : 1..MaxOutDim]

\* The end-to-end scenario: 100 examples, batch_size 16, ratio 5, 1 epoch.
ScenarioConfigs ==
    [n : {100}, batch_size : {16}, generator_training_ratio : {5},
     epochs : {1}, epochs_per_save : {1},
     checkpoint_dir : BOOLEAN, fn_save_examples : {TRUE},
     d_real_dim : {1}, d_fake_dim : {1}]

Configs == GridConfigs \cup ScenarioConfigs

\* The instance attributes that WGAN.__init__ assigns.
InitAttrs(c) ==
    {"raw_dataset", "data_shape", "d_in_data_shape", "generator",
     "discriminator", "z_dim", "generator_optimizer",
     "discriminator_optimizer", "generator_training_ratio", "batch_size",
     "buffer_size", "epochs", "epochs_per_save", "fn_compute_loss",
     "fn_save_examples", "dataset"}
    \cup (IF c.checkpoint_dir THEN {"checkpoint_prefix", "checkpoint"} ELSE {})

VARIABLES
    cfg,            \* constructor arguments (fixed during a run)
    pc,             \* position of train()
    raised,         \* exception that ended train(), "" if none
    epoch,          \* loop variable of `for epoch in range(self.epochs)`
    i,              \* step counter of the inner loop
    it,             \* iterator over self.dataset: passes started, rest of pass
    X,              \* loop variable X: <<bound, batch>>
    gen_updates,    \* apply_gradients calls of generator_optimizer
    disc_updates,   \* apply_gradients calls of discriminator_optimizer
    calls,          \* number of _train_step calls entered
    epoch_base,     \* <<gen_updates, disc_updates>> when the epoch began
    call,           \* the latest _train_step call
    exports,        \* calls of fn_save_examples, in order
    saves,          \* calls of checkpoint.save, in order
    d_real,         \* discriminator scores of the real batch, one per example
    d_fake,         \* discriminator scores of the generated batch
    grad,           \* gradient of the discriminator at the interpolated batch
    losses,         \* what fn_compute_loss returned
    consumed,       \* per example: discriminator updates of this epoch on it
    args,           \* arguments of the array function being applied
    ret             \* what the array function returned

vars == <<cfg, pc, raised, epoch, i, it, X, gen_updates, disc_updates,
          calls, epoch_base, call, exports, saves,
          d_real, d_fake, grad, losses, consumed, args, ret>>

trainVars == <<cfg, pc, raised, epoch, i, it, X, gen_updates, disc_updates,
               calls, epoch_base, call, exports, saves, consumed>>
lossVars == <<d_real, d_fake, grad, losses>>
pureVars == <<args, ret>>

\* A fresh iterator over self.dataset: no shuffled pass started yet.
NewIterator == [pass |-> 0, rest |-> <<>>]

NoLosses == [G_loss |-> <<0, 1>>, D_loss |-> <<0, 1>>, gp |-> <<0, 1>>,
             slopes |-> <<>>]

NoCall == [X |-> <<>>, train_generator |-> FALSE,
           train_discriminator |-> FALSE, asserted |-> FALSE,
           Z_rows |-> 0, X_gen_rows |-> 0, alpha_rows |-> 0,
           draw |-> 0, gen_seen |-> 0, disc_seen |-> 0]

\* No array function is being applied.
NoArgs == [fn |-> "none"]
NoRet == [fn |-> "none"]

\* The train() variables of a specification that only applies a function.
TrainIdle(position) ==
    /\ cfg = [n |-> 0, batch_size |-> 1, generator_training_ratio |-> 1,
              epochs |-> 0, epochs_per_save |-> 1, checkpoint_dir |-> FALSE,
              fn_save_examples |-> FALSE, d_real_dim |-> 1, d_fake_dim |-> 1]
    /\ pc = position
    /\ raised = ""
    /\ epoch = 0
    /\ i = 0
    /\ it = NewIterator
    /\ X = <<FALSE, <<>>>>
    /\ gen_updates = 0
    /\ disc_updates = 0
    /\ calls = 0
    /\ epoch_base = <<0, 0>>
    /\ call = NoCall
    /\ exports = <<>>
    /\ saves = <<>>
    /\ consumed = <<>>

LossIdle ==
    /\ d_real = <<>>
    /\ d_fake = <<>>
    /\ grad = <<>>
    /\ losses = NoLosses

Init ==
    /\ cfg \in Configs
    /\ pc = "train"
    /\ raised = ""
    /\ epoch = 0
    /\ i = 0
    /\ it = NewIterator
    /\ X = <<FALSE, <<>>>>
    /\ gen_updates = 0
    /\ disc_updates = 0
    /\ calls = 0
    /\ epoch_base = <<0, 0>>
    /\ call = NoCall
    /\ exports = <<>>
    /\ saves = <<>>
    /\ d_real = <<>>
    /\ d_fake = <<>>
    /\ grad = <<>>
    /\ losses = NoLosses
    /\ consumed = [e \in 1..cfg.n |-> 0]
    /\ args = NoArgs
    /\ ret = NoRet

\* ------------------------------------------------- the derived dataset view
\* from_tensor_slices(raw).shuffle(buffer).repeat(ratio).batch(batch_size):
\* the outcomes <<batch, iterator>> of asking the iterator for k more
\* elements on top of acc.  The repetition sits before the batching, so a
\* batch runs across the end of one shuffled pass into the next one, and only
\* the very last batch of the stream can be short.
\* Variant: batch(batch_size) applied to each pass before repeat(ratio), so a
\* batch never runs across the end of a pass.
RECURSIVE Take_BatchBeforeRepeat(_, _, _, _)
Take_BatchBeforeRepeat(c, iter, k, acc) ==
    IF k = 0 THEN {<<acc, iter>>}
    ELSE IF iter.rest # <<>>
    THEN Take_BatchBeforeRepeat(c, [iter EXCEPT !.rest = Tail(iter.rest)],
                                k - 1, Append(acc, Head(iter.rest)))
    ELSE IF acc # <<>> THEN {<<acc, iter>>}
    ELSE IF iter.pass < c.generator_training_ratio /\ c.n > 0
    THEN UNION {Take_BatchBeforeRepeat(c, [pass |-> iter.pass + 1,
                                           rest |-> p], k, acc) :
                p \in ShuffleOutcomes(c.n)}
    ELSE {<<acc, iter>>}

\* Variant: batch(batch_size, drop_remainder=True), the short batch at the
\* end of the stream is dropped.
RECURSIVE Take_DropRemainder(_, _, _, _)
Take_DropRemainder(c, iter, k, acc) ==
    IF k = 0 THEN {<<acc, iter>>}
    ELSE IF iter.rest # <<>>
    THEN Take_DropRemainder(c, [iter EXCEPT !.rest = Tail(iter.rest)],
                            k - 1, Append(acc, Head(iter.rest)))
    ELSE IF iter.pass < c.generator_training_ratio /\ c.n > 0
    THEN UNION {Take_DropRemainder(c, [pass |-> iter.pass + 1, rest |-> p],
                                   k, acc) :
                p \in ShuffleOutcomes(c.n)}
    ELSE {<<<<>>, iter>>}

RECURSIVE Take(_, _, _, _)
Take(c, iter, k, acc) ==
    IF k = 0 THEN {<<acc, iter>>}
    ELSE IF iter.rest # <<>>
    THEN Take(c, [iter EXCEPT !.rest = Tail(iter.rest)], k - 1,
              Append(acc, Head(iter.rest)))
    ELSE IF iter.pass < c.generator_training_ratio /\ c.n > 0
    THEN UNION {Take(c, [pass |-> iter.pass + 1, rest |-> p], k, acc) :
                p \in ShuffleOutcomes(c.n)}
    ELSE {<<acc, iter>>}

NextBatch(c, iter) == Take(c, iter, c.batch_size, <<>>)

\* --------------------------------------------------------------- _train_step
\* Variant: the assertions are missing.
AssertsPass_Absent(c) == TRUE

\* The two assertions on the discriminator's output.
AssertsPass(c) == c.d_real_dim = 1 /\ c.d_fake_dim = 1

\* Variant: the generator's gradients are applied whatever the flag says.
GeneratorUpdate_IgnoresFlag(c, train_generator) ==
    IF AssertsPass(c) THEN 1 ELSE 0

\* Number of apply_gradients calls a _train_step makes on each optimizer.
GeneratorUpdate(c, train_generator) ==
    IF AssertsPass(c) /\ train_generator THEN 1 ELSE 0

DiscriminatorUpdate(c, train_discriminator) ==
    IF AssertsPass(c) /\ train_discriminator THEN 1 ELSE 0

\* Occurrences of example e in a batch.
Occurrences(batch, e) == Cardinality({k \in 1..Len(batch) : batch[k] = e})

\* Variant: Z always has batch_size rows.
LatentRows_BatchSize(c, batch) == c.batch_size

\* Rows of Z = tf.random.uniform(shape=(X.shape[0], self.z_dim)).
LatentRows(c, batch) == Len(batch)

\* Rows of self.generator(Z), reshaped to d_in_data_shape (leading -1): one
\* generated example per latent row.
GeneratedRows(z_rows) == z_rows

\* Rows of alpha: alpha_shape[0] = X.shape[0], every other axis 1.
AlphaRows(c, batch) == Len(batch)

\* Variant: the export draws batch_size latent rows.
ExportLatentRows_BatchSize(c, X_real) == c.batch_size

\* Rows of z = tf.random.uniform(shape=(X_real.shape[0], self.z_dim)).
ExportLatentRows(c, X_real) == Len(X_real)

\* Variant: the step works from the forward pass of the call before it.
forward_pass_Reused(prev, n_calls, g_ver, d_ver) ==
    IF prev.draw > 0
    THEN [draw |-> prev.draw, gen_seen |-> prev.gen_seen,
          disc_seen |-> prev.disc_seen]
    ELSE [draw |-> n_calls + 1, gen_seen |-> g_ver, disc_seen |-> d_ver]

\* The forward pass of a call: Z and alpha are drawn anew (draw numbers the
\* drawing), and generator and discriminator are evaluated with the
\* parameters they have when the call is made.
forward_pass(prev, n_calls, g_ver, d_ver) ==
    [draw |-> n_calls + 1, gen_seen |-> g_ver, disc_seen |-> d_ver]

train_step(batch, train_generator, train_discriminator) ==
    /\ calls' = calls + 1
    /\ LET fp == forward_pass(call, calls, gen_updates, disc_updates)
       IN  call' = [X |-> batch, train_generator |-> train_generator,
                    train_discriminator |-> train_discriminator,
                    asserted |-> AssertsPass(cfg),
                    Z_rows |-> LatentRows(cfg, batch),
                    X_gen_rows |-> GeneratedRows(LatentRows(cfg, batch)),
                    alpha_rows |-> AlphaRows(cfg, batch),
                    draw |-> fp.draw, gen_seen |-> fp.gen_seen,
                    disc_seen |-> fp.disc_seen]
    /\ consumed' = [e \in 1..cfg.n |->
                       consumed[e]
                       + DiscriminatorUpdate(cfg, train_discriminator)
                         * Occurrences(batch, e)]
    /\ gen_updates' = gen_updates + GeneratorUpdate(cfg, train_generator)
    /\ disc_updates' = disc_updates
                       + DiscriminatorUpdate(cfg, train_discriminator)
    /\ raised' = IF AssertsPass(cfg) THEN raised ELSE "AssertionError"

\* ------------------------------------------------ _generate_and_save_examples
generate_and_save_examples(tag, X_real) ==
    exports' = IF cfg.fn_save_examples
               THEN Append(exports, [epoch |-> tag, X_real |-> X_real,
                                     z_rows |->
                                         ExportLatentRows(cfg, X_real),
                                     generations |-> GeneratedRows(
                                         ExportLatentRows(cfg, X_real)),
                                     gen_updates |-> gen_updates,
                                     disc_updates |-> disc_updates])
               ELSE exports

\* ---------------------------------------------------------------------- train
\* Variant: the generator step opens each block of `ratio` steps.
GeneratorStepDue_FirstOfBlock(step, ratio) == (step - 1) % ratio = 0

\* `if i % self.generator_training_ratio == 0`
GeneratorStepDue(step, ratio) == step % ratio = 0

\* Variant: the generator-only step draws a fresh batch.
GeneratorStepInput_Fresh(c, x, iter) == NextBatch(c, iter)

\* The batch handed to the generator-only step: the loop variable X, with the
\* iterator left where it is.
GeneratorStepInput(c, x, iter) == {<<x, iter>>}

\* self._generate_and_save_examples(0, self.raw_dataset[0:self.batch_size])
TrainBegin ==
    /\ pc = "train"
    /\ generate_and_save_examples(0, Slice(cfg.n, 0, cfg.batch_size))
    /\ pc' = "for_epoch"
    /\ UNCHANGED <<cfg, raised, epoch, i, it, X, gen_updates, disc_updates,
                   calls, epoch_base, call, saves, consumed>>
    /\ UNCHANGED lossVars
    /\ UNCHANGED pureVars

\* Variant: the step counter is not set back when an epoch begins.
EpochBegin_KeepsCounter ==
    /\ pc = "for_epoch"
    /\ epoch < cfg.epochs
    /\ i' = i
    /\ it' = NewIterator
    /\ pc' = "for_X"
    /\ epoch_base' = <<gen_updates, disc_updates>>
    /\ consumed' = [e \in 1..cfg.n |-> 0]
    /\ UNCHANGED <<cfg, raised, epoch, X, gen_updates, disc_updates, calls,
                   call, exports, saves>>
    /\ UNCHANGED lossVars
    /\ UNCHANGED pureVars

\* for epoch in range(self.epochs): ...; i = 1; iter(self.dataset)
EpochBegin ==
    /\ pc = "for_epoch"
    /\ epoch < cfg.epochs
    /\ i' = 1
    /\ it' = NewIterator
    /\ pc' = "for_X"
    /\ epoch_base' = <<gen_updates, disc_updates>>
    /\ consumed' = [e \in 1..cfg.n |-> 0]
    /\ UNCHANGED <<cfg, raised, epoch, X, gen_updates, disc_updates, calls,
                   call, exports, saves>>
    /\ UNCHANGED lossVars
    /\ UNCHANGED pureVars

\* range(self.epochs) is exhausted: train() returns.
TrainReturn ==
    /\ pc = "for_epoch"
    /\ epoch >= cfg.epochs
    /\ pc' = "done"
    /\ UNCHANGED <<cfg, raised, epoch, i, it, X, gen_updates, disc_updates,
                   calls, epoch_base, call, exports, saves, consumed>>
    /\ UNCHANGED lossVars
    /\ UNCHANGED pureVars

\* for X in self.dataset: _train_step(X, False, True); then either the
\* generator step is due, or i += 1 and the next iteration.
DiscriminatorStep ==
    /\ pc = "for_X"
    /\ \E o \in NextBatch(cfg, it) :
          /\ o[1] # <<>>
          /\ X' = <<TRUE, o[1]>>
          /\ it' = o[2]
          /\ train_step(o[1], FALSE, TRUE)
    /\ IF ~AssertsPass(cfg)
       THEN pc' = "aborted" /\ i' = i
       ELSE IF GeneratorStepDue(i, cfg.generator_training_ratio)
       THEN pc' = "gen_step" /\ i' = i
       ELSE pc' = "for_X" /\ i' = i + 1
    /\ UNCHANGED <<cfg, epoch, epoch_base, exports, saves>>
    /\ UNCHANGED lossVars
    /\ UNCHANGED pureVars

\* _train_step(X, True, False); i += 1
GeneratorStep ==
    /\ pc = "gen_step"
    /\ \E o \in GeneratorStepInput(cfg, X[2], it) :
          /\ X' = <<TRUE, o[1]>>
          /\ it' = o[2]
          /\ train_step(o[1], TRUE, FALSE)
    /\ IF ~AssertsPass(cfg)
       THEN pc' = "aborted" /\ i' = i
       ELSE pc' = "for_X" /\ i' = i + 1
    /\ UNCHANGED <<cfg, epoch, epoch_base, exports, saves>>
    /\ UNCHANGED lossVars
    /\ UNCHANGED pureVars

\* The iterator over self.dataset is exhausted: the inner loop ends.
LoopExit ==
    /\ pc = "for_X"
    /\ \E o \in NextBatch(cfg, it) : o[1] = <<>> /\ it' = o[2]
    /\ pc' = "epoch_end"
    /\ UNCHANGED <<cfg, raised, epoch, i, X, gen_updates, disc_updates,
                   calls, epoch_base, call, exports, saves, consumed>>
    /\ UNCHANGED lossVars
    /\ UNCHANGED pureVars

\* `if self.checkpoint_dir and (epoch + 1) % self.epochs_per_save == 0:
\*      self.checkpoint.save(...)`, then
\* `self._generate_and_save_examples(epoch+1, X)` and the next epoch.
\* Reading an attribute that __init__ never assigned raises AttributeError;
\* reading the loop variable X when the loop body never ran raises NameError.
EpochEnd ==
    /\ pc = "epoch_end"
    /\ IF "checkpoint_dir" \notin InitAttrs(cfg)
       THEN /\ raised' = "AttributeError"
            /\ pc' = "aborted"
            /\ UNCHANGED <<epoch, exports, saves>>
       ELSE /\ saves' = IF cfg.checkpoint_dir
                           /\ (epoch + 1) % cfg.epochs_per_save = 0
                        THEN Append(saves, [epoch |-> epoch + 1,
                                            gen_updates |-> gen_updates,
                                            disc_updates |-> disc_updates])
                        ELSE saves
            /\ IF X[1]
               THEN /\ generate_and_save_examples(epoch + 1, X[2])
                    /\ epoch' = epoch + 1
                    /\ pc' = "for_epoch"
                    /\ raised' = raised
               ELSE /\ raised' = "NameError"
                    /\ pc' = "aborted"
                    /\ UNCHANGED <<epoch, exports>>
    /\ UNCHANGED <<cfg, i, it, X, gen_updates, disc_updates, calls,
                   epoch_base, call, consumed>>
    /\ UNCHANGED lossVars
    /\ UNCHANGED pureVars

Next ==
    \/ TrainBegin
    \/ EpochBegin
    \/ TrainReturn
    \/ DiscriminatorStep
    \/ GeneratorStep
    \/ LoopExit
    \/ EpochEnd

Spec == Init /\ [][Next]_vars


\* ------------------------------------------------------------ _compute_losses
\* Exact rationals <<numerator, denominator>> stand for the float scalars;
\* rounding is not modelled.
RAdd(a, b) == <<a[1] * b[2] + b[1] * a[2], a[2] * b[2]>>
RSub(a, b) == <<a[1] * b[2] - b[1] * a[2], a[2] * b[2]>>
RScale(k, a) == <<k * a[1], a[2]>>

\* tf.reduce_mean over all entries of a score batch.
ReduceMean(s) == <<SeqSum(s), Len(s)>>

\* tf.sqrt, on the perfect squares the gradients of the model produce.
Sqrt(m) == CHOOSE k \in 0..m : k * k = m

Squares(v) == [j \in 1..Len(v) |-> v[j] * v[j]]

\* The coefficient of the gradient penalty in D_loss.
GradientPenaltyWeight == 10

\* slopes: per example, the L2 norm of the gradient over the non-batch axes.
Slopes(g) == [e \in 1..Len(g) |-> Sqrt(SeqSum(Squares(g[e])))]

\* Variant: the penalty is the mean squared slope, not its distance from 1.
GradientPenalty_Uncentred(g) ==
    ReduceMean([e \in 1..Len(g) |-> Slopes(g)[e] * Slopes(g)[e]])

\* gp = tf.reduce_mean((slopes - 1.0) ** 2.0)
GradientPenalty(g) ==
    ReduceMean([e \in 1..Len(g) |-> (Slopes(g)[e] - 1) * (Slopes(g)[e] - 1)])

\* Variant: the generator loss with the sign of the WGAN literature.
compute_losses_NegatedGenerator(dr, df, g) ==
    [G_loss |-> RScale(-1, ReduceMean(df)),
     D_loss |-> RAdd(RSub(ReduceMean(dr), ReduceMean(df)),
                     RScale(GradientPenaltyWeight, GradientPenalty(g))),
     gp |-> GradientPenalty(g),
     slopes |-> Slopes(g)]

\* _compute_losses(model, d_real, d_fake, interpolated); g is the gradient of
\* the discriminator's score at `interpolated` with respect to it.
compute_losses(dr, df, g) ==
    [G_loss |-> ReduceMean(df),
     D_loss |-> RAdd(RSub(ReduceMean(dr), ReduceMean(df)),
                     RScale(GradientPenaltyWeight, GradientPenalty(g))),
     gp |-> GradientPenalty(g),
     slopes |-> Slopes(g)]

\* Inputs of the loss strategy: score batches and per-example gradients whose
\* norm is a whole number.
Scores == (0 - 1)..MaxScore

GradVectors ==
    {v \in [1..GradWidth -> 0..MaxGrad] :
        \E k \in 0..(GradWidth * MaxGrad) : k * k = SeqSum(Squares(v))}

InitLoss ==
    /\ cfg = [n |-> 0, batch_size |-> 1, generator_training_ratio |-> 1,
              epochs |-> 0, epochs_per_save |-> 1, checkpoint_dir |-> FALSE,
              fn_save_examples |-> FALSE, d_real_dim |-> 1, d_fake_dim |-> 1]
    /\ pc = "compute_losses"
    /\ raised = ""
    /\ epoch = 0
    /\ i = 0
    /\ it = NewIterator
    /\ X = <<FALSE, <<>>>>
    /\ gen_updates = 0
    /\ disc_updates = 0
    /\ calls = 0
    /\ epoch_base = <<0, 0>>
    /\ call = NoCall
    /\ exports = <<>>
    /\ saves = <<>>
    /\ consumed = <<>>
    /\ args = NoArgs
    /\ ret = NoRet
    /\ \E b \in 1..MaxLossBatch :
          /\ d_real \in [1..b -> Scores]
          /\ d_fake \in [1..b -> Scores]
          /\ grad \in [1..b -> GradVectors]
    /\ losses = NoLosses

\* g_loss, d_loss = self.fn_compute_loss(self, d_real, d_fake, interp)
ComputeLosses ==
    /\ pc = "compute_losses"
    /\ losses' = compute_losses(d_real, d_fake, grad)
    /\ pc' = "losses_returned"
    /\ UNCHANGED <<cfg, raised, epoch, i, it, X, gen_updates, disc_updates,
                   calls, epoch_base, call, exports, saves, consumed>>
    /\ UNCHANGED <<d_real, d_fake, grad>>
    /\ UNCHANGED pureVars

NextLoss == ComputeLosses

LossSpec == InitLoss /\ [][NextLoss]_vars

\* ------------------------------------------- _train_step: the interpolation
\* Floating-point numbers with MantissaBits significant bits (float32 has 24),
\* here the whole numbers m * 2^k with |m| < 2^MantissaBits: every arithmetic
\* operation rounds its exact result to the nearest such number, ties to the
\* even mantissa.  Overflow and subnormals are not modelled.
RECURSIVE Pow2(_)
Pow2(k) == IF k = 0 THEN 1 ELSE 2 * Pow2(k - 1)

RECURSIVE Ulp(_, _)
Ulp(a, step) == IF a < Pow2(MantissaBits) * step THEN step
                ELSE Ulp(a, 2 * step)

RoundEven(a) ==
    LET step == Ulp(a, 1)
        q == a \div step
        r == a % step
    IN  IF 2 * r < step THEN q * step
        ELSE IF 2 * r > step THEN (q + 1) * step
        ELSE IF q % 2 = 0 THEN q * step ELSE (q + 1) * step

Fl(x) == IF x >= 0 THEN RoundEven(x) ELSE 0 - RoundEven(0 - x)

FAdd(a, b) == Fl(a + b)
FSub(a, b) == Fl(a - b)
FMul(a, b) == Fl(a * b)

\* Variant: the interpolation starts from the generated batch.
Interpolate_FromGenerated(Xr, Xg, alpha) ==
    [e \in 1..Len(Xr) |->
        [j \in 1..Len(Xr[e]) |->
            FAdd(Xg[e][j], FMul(alpha[e], FSub(Xg[e][j], Xr[e][j])))]]

\* diff = X_gen - X; interp = X + (alpha * diff), with alpha of shape
\* (batch, 1, ..., 1): row e of alpha multiplies every entry of example e.
Interpolate(Xr, Xg, alpha) ==
    [e \in 1..Len(Xr) |->
        [j \in 1..Len(Xr[e]) |->
            FAdd(Xr[e][j], FMul(alpha[e], FSub(Xg[e][j], Xr[e][j])))]]

\* Entries of the real and of the generated batch, and the two boundary
\* values of alpha.
RealValues == {0 - 1, 1}
GenValues == {0, Pow2(MantissaBits)}
AlphaValues == {0, 1}

InitInterp ==
    /\ TrainIdle("interpolate")
    /\ LossIdle
    /\ \E b \in 1..MaxInterpBatch :
          args \in [fn : {"interp"},
                    X : [1..b -> [1..InterpWidth -> RealValues]],
                    X_gen : [1..b -> [1..InterpWidth -> GenValues]],
                    alpha : [1..b -> AlphaValues]]
    /\ ret = NoRet

\* alpha = ...; diff = X_gen - X; interp = X + (alpha * diff)
Interpolation ==
    /\ pc = "interpolate"
    /\ ret' = [fn |-> "interp",
               interp |-> Interpolate(args.X, args.X_gen, args.alpha)]
    /\ pc' = "interpolated"
    /\ UNCHANGED <<cfg, raised, epoch, i, it, X, gen_updates, disc_updates,
                   calls, epoch_base, call, exports, saves, consumed>>
    /\ UNCHANGED lossVars
    /\ UNCHANGED args

NextInterp == Interpolation

InterpSpec == InitInterp /\ [][NextInterp]_vars

\* ------------------------------------------- utils/spectral.py: array shapes
\* The frequency axis of one frame, as a sequence of terms.  The values that
\* library calls compute (the STFT, the mel filterbank product, log, exp,
\* unwrap, cumsum) are kept as terms over the bins they are computed from;
\* the slicing and the padding done by spectral.py are carried out on the
\* sequences.

\* fft_length of tf.signal.stft / inverse_stft when none is passed: the
\* smallest power of two that encloses frame_length.
RECURSIVE EnclosingPowerOfTwo(_, _)
EnclosingPowerOfTwo(len, p) ==
    IF p >= len THEN p ELSE EnclosingPowerOfTwo(len, 2 * p)

FftLength(frame_length) == EnclosingPowerOfTwo(frame_length, 1)

\* Bins of tf.signal.stft along the last axis: fft_length // 2 + 1.
StftBins(frame_length) == FftLength(frame_length) \div 2 + 1

Bin(part, k) == [op |-> "stft", part |-> part, k |-> k]
Zero == [op |-> "zero"]

\* part(tf.signal.stft(waveform, frame_length, ...)) for one frame.
Stft(part, frame_length) ==
    [k \in 1..StftBins(frame_length) |-> Bin(part, k)]

\* An elementwise operation on an array.
Elementwise(op, seq) == [k \in 1..Len(seq) |-> [op |-> op, of |-> seq[k]]]

\* [:, :, 0:-1]
TruncateNyquist(seq) == SubSeq(seq, 1, Len(seq) - 1)

\* tf.pad(x, [[0, 0], [0, 0], [0, 1]], constant_values=0)
PadNyquist(seq) == Append(seq, Zero)

\* _linear_to_mel_scale: tensordot with a [bins, n_mel_bins] matrix.
linear_to_mel_scale(seq, n_mel_bins) ==
    [k \in 1..n_mel_bins |-> [op |-> "mel", k |-> k, of |-> seq]]

\* _mel_to_linear_scale: tensordot with the [n_mel, n_stft_bins] pseudo
\* inverse of the filterbank.
mel_to_linear_scale(seq, n_stft_bins) ==
    [k \in 1..n_stft_bins |-> [op |-> "mel_pinv", k |-> k, of |-> seq]]

\* The channels <<real, img>> that waveform_2_stft returns.
waveform_2_stft(a) ==
    LET real == TruncateNyquist(Stft("real", a.frame_length))
        img == TruncateNyquist(Stft("imag", a.frame_length))
    IN  IF a.n_mel_bins # 0
        THEN <<linear_to_mel_scale(real, a.n_mel_bins),
               linear_to_mel_scale(img, a.n_mel_bins)>>
        ELSE <<real, img>>

\* The channels <<magnitude, phase>> that waveform_2_spectogram returns.
waveform_2_spectogram(a) ==
    LET magnitude0 == TruncateNyquist(Stft("abs", a.frame_length))
        phase0 == TruncateNyquist(Stft("angle", a.frame_length))
        magnitude1 == IF a.n_mel_bins # 0
                      THEN linear_to_mel_scale(magnitude0, a.n_mel_bins)
                      ELSE magnitude0
        phase1 == IF a.n_mel_bins # 0
                  THEN linear_to_mel_scale(phase0, a.n_mel_bins)
                  ELSE phase0
        magnitude2 == IF a.log_magnitude
                      THEN Elementwise("log_eps", magnitude1)
                      ELSE magnitude1
        phase2 == IF a.instantaneous_frequency
                  THEN Elementwise("unwrap_diff", phase1)
                  ELSE phase1
    IN  <<magnitude2, phase2>>

\* waveform_2_magnitude: channel 0 of waveform_2_spectogram, called with the
\* default instantaneous_frequency.
waveform_2_magnitude(a) ==
    <<waveform_2_spectogram(
          [a EXCEPT !.instantaneous_frequency = TRUE])[1]>>

\* The channels <<real, img>> that stft_2_waveform hands to tf.complex and
\* inverse_stft.
stft_2_waveform(stft, a) ==
    LET real == IF a.n_mel_bins # 0
                THEN mel_to_linear_scale(stft[1], a.frame_length \div 2)
                ELSE stft[1]
        img == IF a.n_mel_bins # 0
               THEN mel_to_linear_scale(stft[2], a.frame_length \div 2)
               ELSE stft[2]
    IN  <<PadNyquist(real), PadNyquist(img)>>

\* The channels <<magnitude, phase>> from which spectogram_2_waveform builds
\* the STFT it inverts.
spectogram_2_waveform(spectogram, a) ==
    LET magnitude1 == IF a.n_mel_bins # 0
                      THEN mel_to_linear_scale(spectogram[1],
                                               a.frame_length \div 2)
                      ELSE spectogram[1]
        phase1 == IF a.n_mel_bins # 0
                  THEN mel_to_linear_scale(spectogram[2],
                                           a.frame_length \div 2)
                  ELSE spectogram[2]
        magnitude2 == IF a.log_magnitude
                      THEN Elementwise("exp_eps", magnitude1)
                      ELSE magnitude1
        phase2 == IF a.instantaneous_frequency
                  THEN Elementwise("cumsum_wrap", phase1)
                  ELSE phase1
    IN  <<PadNyquist(magnitude2), PadNyquist(phase2)>>

\* The channel <<magnitude>> that magnitude_2_waveform hands to griffinlim.
magnitude_2_waveform(magnitude, a) ==
    LET magnitude1 == IF a.log_magnitude
                      THEN Elementwise("exp_eps", magnitude[1])
                      ELSE magnitude[1]
        magnitude2 == IF a.n_mel_bins # 0
                      THEN mel_to_linear_scale(magnitude1,
                                               a.frame_length \div 2)
                      ELSE magnitude1
    IN  <<PadNyquist(magnitude2)>>

\* A forward transform and the inverse that is applied to its result, with
\* the same parameters.  n_mel_bins = 0 stands for None.
InitShape ==
    /\ TrainIdle("forward")
    /\ LossIdle
    /\ args \in [fn : {"stft", "spectogram", "magnitude"},
                  frame_length : 2..MaxFrameLength,
                  n_mel_bins : 0..MaxMelBins,
                  log_magnitude : BOOLEAN,
                  instantaneous_frequency : BOOLEAN]
    /\ ret = NoRet

Forward ==
    /\ pc = "forward"
    /\ ret' = [fn |-> args.fn,
               forward |-> CASE args.fn = "stft" -> waveform_2_stft(args)
                             [] args.fn = "spectogram" ->
                                   waveform_2_spectogram(args)
                             [] args.fn = "magnitude" ->
                                   waveform_2_magnitude(args),
               inverse |-> <<>>]
    /\ pc' = "inverse"
    /\ UNCHANGED <<cfg, raised, epoch, i, it, X, gen_updates, disc_updates,
                   calls, epoch_base, call, exports, saves, consumed>>
    /\ UNCHANGED lossVars
    /\ UNCHANGED args

Inverse ==
    /\ pc = "inverse"
    /\ ret' = [ret EXCEPT !.inverse =
                  CASE args.fn = "stft" -> stft_2_waveform(ret.forward, args)
                    [] args.fn = "spectogram" ->
                          spectogram_2_waveform(ret.forward, args)
                    [] args.fn = "magnitude" ->
                          magnitude_2_waveform(ret.forward, args)]
    /\ pc' = "inverted"
    /\ UNCHANGED <<cfg, raised, epoch, i, it, X, gen_updates, disc_updates,
                   calls, epoch_base, call, exports, saves, consumed>>
    /\ UNCHANGED lossVars
    /\ UNCHANGED args

NextShape == Forward \/ Inverse

ShapeSpec == InitShape /\ [][NextShape]_vars

\* ------------------------------- utils/spectral.py: instantaneous frequency
\* Angles are integer multiples of pi / PhaseUnits, so that sums, differences
\* and the modulo by 2*pi are exact.  A phase array is a sequence of frames
\* (time axis, -2), each a sequence of bins (frequency axis, -1).

Pi == PhaseUnits

Abs(x) == IF x < 0 THEN 0 - x ELSE x

\* np.unwrap along one axis with the default discont = pi.
Unwrap(p) ==
    LET dd(k) == p[k + 1] - p[k]
        ddmod(k) == LET m == ((dd(k) + Pi) % (2 * Pi)) - Pi
                    IN  IF m = 0 - Pi /\ dd(k) > 0 THEN Pi ELSE m
        ph_correct(k) == IF Abs(dd(k)) < Pi THEN 0 ELSE ddmod(k) - dd(k)
    IN  [k \in 1..Len(p) |->
            p[k] + SeqSum([j \in 1..(k - 1) |-> ph_correct(j)])]

\* np.unwrap(phase): the default axis is the last one, the frequency axis.
unwrap(phase) == [t \in 1..Len(phase) |-> Unwrap(phase[t])]

\* np.concatenate([phase[:, 0, :], np.diff(phase, axis=-2)], axis=-2)
first_and_diff(phase) ==
    [t \in 1..Len(phase) |->
        [f \in 1..Len(phase[t]) |->
            IF t = 1 THEN phase[1][f] ELSE phase[t][f] - phase[t - 1][f]]]

\* tf.cumsum(phase, axis=-2)
cumsum(phase) ==
    [t \in 1..Len(phase) |->
        [f \in 1..Len(phase[t]) |->
            SeqSum([u \in 1..t |-> phase[u][f]])]]

\* (phase + np.pi) % (2 * np.pi) - np.pi, floored modulo
WrapPhase_NoShift(x) == x % (2 * Pi)

WrapPhase(x) == ((x + Pi) % (2 * Pi)) - Pi

wrap(phase) ==
    [t \in 1..Len(phase) |->
        [f \in 1..Len(phase[t]) |-> WrapPhase(phase[t][f])]]

\* The phase is tf.math.angle(stft), any angle in [-pi, pi].
InitPhase ==
    /\ TrainIdle("difference")
    /\ LossIdle
    /\ \E T \in 1..MaxFrames, F \in 1..MaxPhaseBins :
          args \in [fn : {"phase"},
                    phase : [1..T -> [1..F -> (0 - Pi)..Pi]]]
    /\ ret = NoRet

\* waveform_2_spectogram, instantaneous_frequency=True.
Difference ==
    /\ pc = "difference"
    /\ ret' = [fn |-> "phase",
               unwrapped |-> unwrap(args.phase),
               inst_freq |-> first_and_diff(unwrap(args.phase)),
               phase |-> <<>>]
    /\ pc' = "recover"
    /\ UNCHANGED <<cfg, raised, epoch, i, it, X, gen_updates, disc_updates,
                   calls, epoch_base, call, exports, saves, consumed>>
    /\ UNCHANGED lossVars
    /\ UNCHANGED args

\* spectogram_2_waveform, instantaneous_frequency=True.
Recover ==
    /\ pc = "recover"
    /\ ret' = [ret EXCEPT !.phase = wrap(cumsum(ret.inst_freq))]
    /\ pc' = "recovered"
    /\ UNCHANGED <<cfg, raised, epoch, i, it, X, gen_updates, disc_updates,
                   calls, epoch_base, call, exports, saves, consumed>>
    /\ UNCHANGED lossVars
    /\ UNCHANGED args

NextPhase == Difference \/ Recover

PhaseSpec == InitPhase /\ [][NextPhase]_vars

\* ------------------------------------- utils/spectral.py: STFT round trip
\* waveform_2_stft followed by stft_2_waveform without mel scaling, computed
\* exactly for frame_length = 4, where fft_length = 4 and the DFT has the
\* twiddle factors 1, -i, -1, i.  Window values are carried times
\* WindowScale, waveform samples are integers, results are rationals
\* <<numerator, denominator>>.

FrameLength == 4
WindowScale == 100

\* WINDOW_FN(frame_length): the periodic Hamming window
\* 0.54 - 0.46 * cos(2 * pi * n / 4), times WindowScale.
hamming_window == <<8, 54, 100, 54>>

\* tf.signal.frame(w, frame_length, frame_step, pad_end=True): -(-L // step)
\* frames, zero padded past the end of the waveform.
frame(w, frame_step) ==
    [f \in 1..((Len(w) + frame_step - 1) \div frame_step) |->
        [n \in 1..FrameLength |->
            LET p == (f - 1) * frame_step + n
            IN  IF p <= Len(w) THEN w[p] ELSE 0]]

\* tf.signal.rfft of four real samples: bins 0, 1 and 2 (Nyquist).
rfft(x) ==
    <<[re |-> x[1] + x[2] + x[3] + x[4], im |-> 0],
      [re |-> x[1] - x[3], im |-> x[4] - x[2]],
      [re |-> x[1] - x[2] + x[3] - x[4], im |-> 0]>>

\* tf.signal.stft: window each frame, then rfft.
stft(w, frame_step) ==
    LET frames == frame(w, frame_step)
    IN  [f \in 1..Len(frames) |->
            rfft([n \in 1..FrameLength |->
                     hamming_window[n] * frames[f][n]])]

\* waveform_2_stft with n_mel_bins=None: real and imaginary part of every
\* frame without the last bin.
waveform_to_stft(w, frame_step) ==
    LET s == stft(w, frame_step)
    IN  [f \in 1..Len(s) |->
            [real |-> TruncateNyquist([k \in 1..Len(s[f]) |-> s[f][k].re]),
             img |-> TruncateNyquist([k \in 1..Len(s[f]) |-> s[f][k].im])]]

\* tf.pad(real, [[0, 0], [0, 0], [0, 1]], constant_values=0) and
\* tf.complex(real, img).
pad_complex(fr) ==
    LET real == Append(fr.real, 0)
        img == Append(fr.img, 0)
    IN  [k \in 1..Len(real) |-> [re |-> real[k], im |-> img[k]]]

\* tf.signal.irfft of bins 0..2 to four samples, times 4.
irfft(c) ==
    <<c[1].re + 2 * c[2].re + c[3].re,
      c[1].re - 2 * c[2].im - c[3].re,
      c[1].re - 2 * c[2].re + c[3].re,
      c[1].re + 2 * c[2].im - c[3].re>>

\* The denominator of tf.signal.inverse_stft_window_fn at window position n:
\* the squared forward window summed over the positions congruent to n
\* modulo frame_step, times WindowScale^2.
WindowDenominator(n, frame_step) ==
    SeqSum([j \in 1..FrameLength |->
               IF (j - n) % frame_step = 0
               THEN hamming_window[j] * hamming_window[j] ELSE 0])

inverse_stft_window_fn_Forward(n, frame_step) ==
    <<hamming_window[n], WindowScale>>

\* tf.signal.inverse_stft_window_fn(frame_step, WINDOW_FN) at position n.
inverse_stft_window_fn(n, frame_step) ==
    <<WindowScale * hamming_window[n], WindowDenominator(n, frame_step)>>

\* tf.signal.inverse_stft: irfft of every frame, times the inverse window,
\* then overlap_and_add with frame_step.  All frames adding into one output
\* sample have window positions congruent modulo frame_step, hence one
\* denominator.
inverse_stft(c, frame_step) ==
    LET out_len == (Len(c) - 1) * frame_step + FrameLength
        covers(f, p) == /\ (f - 1) * frame_step < p
                        /\ p <= (f - 1) * frame_step + FrameLength
        pos(f, p) == p - (f - 1) * frame_step
        term(f, p) ==
            IF covers(f, p)
            THEN irfft(c[f])[pos(f, p)]
                   * inverse_stft_window_fn(pos(f, p), frame_step)[1]
            ELSE 0
        first(p) == CHOOSE f \in 1..Len(c) : covers(f, p)
    IN  [p \in 1..out_len |->
            <<SeqSum([f \in 1..Len(c) |-> term(f, p)]),
              4 * WindowScale
                * inverse_stft_window_fn(pos(first(p), p), frame_step)[2]>>]

\* stft_2_waveform with n_mel_bins=None.
stft_to_waveform(s, frame_step) ==
    inverse_stft([f \in 1..Len(s) |-> pad_complex(s[f])], frame_step)

SampleValues == {0 - 1, 0, 1}

\* A waveform whose length is a multiple of frame_step.
InitRoundTrip ==
    /\ TrainIdle("waveform")
    /\ LossIdle
    /\ \E frame_step \in 1..MaxFrameStep :
          \E frames \in 1..(MaxWaveLen \div frame_step) :
             args \in [fn : {"roundtrip"},
                       frame_step : {frame_step},
                       waveform : [1..(frames * frame_step) -> SampleValues]]
    /\ ret = NoRet

ForwardStft ==
    /\ pc = "waveform"
    /\ ret' = [fn |-> "roundtrip",
               stft |-> waveform_to_stft(args.waveform, args.frame_step),
               waveform |-> <<>>]
    /\ pc' = "stft"
    /\ UNCHANGED <<cfg, raised, epoch, i, it, X, gen_updates, disc_updates,
                   calls, epoch_base, call, exports, saves, consumed>>
    /\ UNCHANGED lossVars
    /\ UNCHANGED args

InverseStft ==
    /\ pc = "stft"
    /\ ret' = [ret EXCEPT
                  !.waveform = stft_to_waveform(ret.stft, args.frame_step)]
    /\ pc' = "reconstructed"
    /\ UNCHANGED <<cfg, raised, epoch, i, it, X, gen_updates, disc_updates,
                   calls, epoch_base, call, exports, saves, consumed>>
    /\ UNCHANGED lossVars
    /\ UNCHANGED args

NextRoundTrip == ForwardStft \/ InverseStft

RoundTripSpec == InitRoundTrip /\ [][NextRoundTrip]_vars

\* =================================================================== claims
RunOver == pc \in {"done", "aborted"}

\* Updates made since the current epoch began.
EpochGen == gen_updates - epoch_base[1]
EpochDisc == disc_updates - epoch_base[2]

CeilDiv(a, b) == (a + b - 1) \div b

IsScenario ==
    /\ cfg.n = 100 /\ cfg.batch_size = 16
    /\ cfg.generator_training_ratio = 5 /\ cfg.epochs = 1

ScalarOutput == cfg.d_real_dim = 1 /\ cfg.d_fake_dim = 1

\* C1 (as stated): with 100 examples, batch_size 16, ratio 5 and 1 epoch, a
\* run of train() makes 35 discriminator updates and 7 generator updates.
C1_AsStated ==
    (IsScenario /\ RunOver) => (disc_updates = 35 /\ gen_updates = 7)

\* C1 (amended): with 100 examples, batch_size 16, ratio 5 and 1 epoch, a run
\* of train() makes ceil(100*5/16) = 32 discriminator updates and
\* floor(32/5) = 6 generator updates: the 500 repeated examples are batched.
C1_ScenarioCounts ==
    (IsScenario /\ RunOver) => (disc_updates = 32 /\ gen_updates = 6)

C1_Witness == IsScenario /\ RunOver /\ calls = 38

\* C2 (as stated): when the inner loop of an epoch has ended, the epoch's
\* discriminator updates are exactly ratio times its generator updates.
C2_AsStated ==
    pc = "epoch_end" =>
        EpochDisc = cfg.generator_training_ratio * EpochGen

\* C2 (amended): when the inner loop of an epoch has ended, the epoch made
\* D = ceil(n*ratio/batch_size) discriminator updates and floor(D/ratio)
\* generator updates, so ratio*G <= D < ratio*(G+1).
C2_UpdateRatio ==
    pc = "epoch_end" =>
        /\ EpochDisc = CeilDiv(cfg.n * cfg.generator_training_ratio,
                               cfg.batch_size)
        /\ EpochGen = EpochDisc \div cfg.generator_training_ratio

C2_Witness ==
    /\ pc = "epoch_end"
    /\ EpochGen >= 1
    /\ EpochDisc % cfg.generator_training_ratio # 0

\* The tags of the export calls made so far.
ExportTags == [k \in 1..Len(exports) |-> exports[k].epoch]

\* C3: once a run with an export callback is over, it has made epochs+1
\* export calls tagged 0..epochs in order, the one tagged 0 before any update
\* and the one tagged e after the updates of epoch e.
C3_ExportCalls ==
    (RunOver /\ cfg.fn_save_examples /\ ScalarOutput /\ cfg.n > 0) =>
        /\ ExportTags = [k \in 1..(cfg.epochs + 1) |-> k - 1]
        /\ \A k \in 1..Len(exports) :
              exports[k].disc_updates =
                  (k - 1) * CeilDiv(cfg.n * cfg.generator_training_ratio,
                                    cfg.batch_size)

\* C4: a run constructed with checkpoint_dir=None ends by completing all its
\* epochs, and saves no checkpoint.
C4_NoCheckpointDir ==
    (RunOver /\ ~cfg.checkpoint_dir /\ ScalarOutput /\ cfg.n > 0) =>
        (pc = "done" /\ epoch = cfg.epochs /\ saves = <<>>)

\* C5: a run with a checkpoint destination saves at the end of exactly the
\* epochs e with e mod epochs_per_save = 0: floor(epochs/epochs_per_save)
\* saves in all, each after all the updates of its epoch.
C5_CheckpointCadence ==
    (RunOver /\ cfg.checkpoint_dir /\ ScalarOutput /\ cfg.n > 0) =>
        /\ Len(saves) = cfg.epochs \div cfg.epochs_per_save
        /\ \A k \in 1..Len(saves) :
              /\ saves[k].epoch = k * cfg.epochs_per_save
              /\ saves[k].disc_updates =
                     saves[k].epoch
                     * CeilDiv(cfg.n * cfg.generator_training_ratio,
                               cfg.batch_size)

\* C6: if the discriminator's output on the real or on the generated batch
\* has a trailing dimension other than 1, the first _train_step ends the run
\* with an AssertionError: no optimizer update, no second step, no checkpoint
\* and no post-epoch export ever happens.
C6_ShapeAbort ==
    ((cfg.d_real_dim # 1 \/ cfg.d_fake_dim # 1) /\ calls >= 1) =>
        /\ pc = "aborted" /\ raised = "AssertionError"
        /\ calls = 1
        /\ gen_updates = 0 /\ disc_updates = 0
        /\ saves = <<>>
        /\ \A k \in 1..Len(exports) : exports[k].epoch = 0

C6_Witness ==
    /\ cfg.d_real_dim = 1 /\ cfg.d_fake_dim # 1
    /\ calls = 1 /\ pc = "aborted" /\ Len(exports) = 1

\* C7: a step changes the generator's parameters only in a _train_step call
\* with train_generator set, the discriminator's only in a call with
\* train_discriminator set, and never both in one call.
C7_FlagsGuardUpdates ==
    [][/\ gen_updates' # gen_updates =>
             (calls' = calls + 1 /\ call'.train_generator)
       /\ disc_updates' # disc_updates =>
             (calls' = calls + 1 /\ call'.train_discriminator)
       /\ (calls' = calls + 1 /\ ~call'.train_generator) =>
             gen_updates' = gen_updates
       /\ (calls' = calls + 1 /\ ~call'.train_discriminator) =>
             disc_updates' = disc_updates
       /\ ~(gen_updates' # gen_updates /\ disc_updates' # disc_updates)
      ]_vars

C7_Witness ==
    /\ gen_updates >= 1 /\ disc_updates >= 2
    /\ call.train_generator /\ ~call.train_discriminator

\* C8: every generator update is made by the call right after a
\* discriminator update, on the identical batch, with no batch drawn from
\* the iterator in between.
C8_SameBatch ==
    [][gen_updates' # gen_updates =>
          /\ calls' = calls + 1
          /\ call.train_discriminator /\ ~call.train_generator
          /\ call.asserted
          /\ call'.X = call.X
          /\ X' = X
          /\ it' = it
      ]_vars

C8_Witness ==
    /\ gen_updates >= 1 /\ call.train_generator
    /\ Len(call.X) >= 2 /\ it.rest # <<>>

\* C9: once an epoch over a non-empty dataset is behind the run, the latest
\* export call is the one tagged with that epoch and its real batch is the
\* last batch a train step processed.
C9_ExportLastBatch ==
    (pc \in {"for_epoch", "done", "aborted"} /\ calls > 0
       /\ cfg.fn_save_examples /\ ScalarOutput) =>
        /\ exports[Len(exports)].epoch >= 1
        /\ exports[Len(exports)].X_real = call.X


\* C10: the default loss strategy returns G_loss = mean(d_fake), not negated,
\* and D_loss = mean(d_real) - mean(d_fake) + 10 * gp, for all score batches
\* and every gradient penalty gp.
C10_DefaultLosses ==
    pc = "losses_returned" =>
        LET B == Len(d_fake)
            G == losses.G_loss
            D == losses.D_loss
            P == losses.gp
        IN  /\ G[2] > 0 /\ D[2] > 0 /\ P[2] > 0
            /\ G[1] * B = SeqSum(d_fake) * G[2]
            /\ D[1] * B * P[2] =
                 ((SeqSum(d_real) - SeqSum(d_fake)) * P[2] + 10 * P[1] * B)
                 * D[2]

C10_Witness ==
    /\ pc = "losses_returned"
    /\ Len(d_fake) = 2
    /\ SeqSum(d_fake) < 0
    /\ SeqSum(d_real) # SeqSum(d_fake)
    /\ losses.gp[1] > 0


\* C13 (as stated): every batch handed to _train_step has exactly batch_size
\* examples and its latent batch Z has batch_size rows.
C13_AsStated ==
    calls >= 1 =>
        (Len(call.X) = cfg.batch_size /\ call.Z_rows = cfg.batch_size)

\* C13 (amended): every batch handed to _train_step has batch_size examples,
\* except the last one of the epoch's stream, which has
\* (n*ratio) mod batch_size examples when that is not zero; Z has as many
\* rows as the batch has examples.
C13_BatchRows ==
    [][calls' = calls + 1 =>
          /\ Len(call'.X) \in 1..cfg.batch_size
          /\ call'.Z_rows = Len(call'.X)
          /\ Len(call'.X) < cfg.batch_size =>
                /\ it'.pass = cfg.generator_training_ratio /\ it'.rest = <<>>
                /\ Len(call'.X) =
                      (cfg.n * cfg.generator_training_ratio) % cfg.batch_size
      ]_vars

C13_Witness ==
    /\ calls >= 2
    /\ Len(call.X) < cfg.batch_size
    /\ call.Z_rows = 1
    /\ disc_updates = calls

\* C17: when the inner loop of an epoch has ended, every example of the raw
\* dataset has gone through exactly generator_training_ratio discriminator
\* updates of that epoch.
C17_EachExampleRatioTimes ==
    pc = "epoch_end" =>
        \A e \in 1..cfg.n : consumed[e] = cfg.generator_training_ratio

C17_Witness ==
    /\ pc = "epoch_end"
    /\ cfg.n >= 2 /\ cfg.generator_training_ratio >= 2
    /\ (cfg.n * cfg.generator_training_ratio) % cfg.batch_size # 0
    /\ \A e \in 1..cfg.n : consumed[e] = cfg.generator_training_ratio

C19_RunsAllEpochs ==
    (RunOver /\ ScalarOutput /\ cfg.n > 0) =>
        /\ raised = ""
        /\ epoch = cfg.epochs
        /\ cfg.epochs = 0 =>
              (calls = 0 /\ \A k \in 1..Len(exports) : exports[k].epoch = 0)

\* C20: a generator update comes from a forward pass of its own, made after
\* the discriminator update of the same iteration was applied: it sees the
\* updated discriminator parameters and uses a new drawing of Z and alpha.
C20_FreshForwardPass ==
    [][gen_updates' # gen_updates =>
          /\ call.train_discriminator /\ call.asserted
          /\ call'.disc_seen = disc_updates
          /\ call'.disc_seen = call.disc_seen + 1
          /\ call'.gen_seen = gen_updates
          /\ call'.draw # call.draw
      ]_vars

C20_Witness ==
    /\ gen_updates >= 2
    /\ call.train_generator
    /\ call.disc_seen = disc_updates
    /\ call.draw = calls


\* C12: when the gradient of the discriminator at the interpolated batch is
\* zero everywhere, every per-example slope is 0, the gradient penalty is 1
\* and D_loss = mean(d_real) - mean(d_fake) + 10.
C12_ZeroGradientPenalty ==
    (pc = "losses_returned"
       /\ \A e \in 1..Len(grad) : \A j \in 1..Len(grad[e]) : grad[e][j] = 0)
    =>
        LET B == Len(d_fake)
            D == losses.D_loss
        IN  /\ \A e \in 1..Len(grad) : losses.slopes[e] = 0
            /\ losses.gp[2] > 0 /\ losses.gp[1] = losses.gp[2]
            /\ D[2] > 0
            /\ D[1] * B = (SeqSum(d_real) - SeqSum(d_fake) + 10 * B) * D[2]

C12_Witness ==
    /\ pc = "losses_returned"
    /\ Len(grad) = 2
    /\ \A e \in 1..Len(grad) : \A j \in 1..Len(grad[e]) : grad[e][j] = 0
    /\ SeqSum(d_real) # SeqSum(d_fake)
    /\ losses.gp = <<2, 2>>


RECURSIVE SourceBin(_)
SourceBin(t) == IF t.op \in {"stft", "zero", "mel", "mel_pinv"} THEN t
                ELSE SourceBin(t.of)

\* C14, forward half: without mel scaling every channel of a forward
\* transform holds the STFT's bins but the last one, in order.
C14_ForwardDropsNyquist ==
    (pc \in {"inverse", "inverted"} /\ args.n_mel_bins = 0) =>
        \A c \in 1..Len(ret.forward) :
            /\ Len(ret.forward[c]) = StftBins(args.frame_length) - 1
            /\ \A k \in 1..Len(ret.forward[c]) :
                  /\ SourceBin(ret.forward[c][k]).op = "stft"
                  /\ SourceBin(ret.forward[c][k]).k = k

\* C14, inverse half: every channel an inverse builds ends with one zero bin
\* appended to the bins before it.
C14_InversePadsZero ==
    pc = "inverted" =>
        \A c \in 1..Len(ret.inverse) :
            LET ch == ret.inverse[c]
            IN  /\ Len(ch) >= 1
                /\ ch[Len(ch)] = Zero
                /\ \A k \in 1..(Len(ch) - 1) : ch[k] # Zero
                /\ args.n_mel_bins = 0 =>
                      Len(ch) = Len(ret.forward[c]) + 1

\* C14: every forward transform drops the last (Nyquist) bin of the STFT,
\* every inverse appends one zero bin, and the inverse applied to the result
\* of the forward transform has the bin count of the STFT again.
C14_NyquistBin ==
    /\ C14_ForwardDropsNyquist
    /\ C14_InversePadsZero
    /\ pc = "inverted" =>
          \A c \in 1..Len(ret.inverse) :
              Len(ret.inverse[c]) = StftBins(args.frame_length)

\* Where the bin count is restored: no mel scaling, or a frame_length that is
\* its own fft_length.
C14_RestoredWhenAligned ==
    (pc = "inverted"
       /\ (args.n_mel_bins = 0 \/ FftLength(args.frame_length)
                                    = args.frame_length)) =>
        \A c \in 1..Len(ret.inverse) :
            Len(ret.inverse[c]) = StftBins(args.frame_length)


\* The recovered phase is congruent modulo 2*pi to the phase that was
\* differenced, and the cumulative sum gives back the unwrapped phase.
PhaseCongruent ==
    /\ cumsum(ret.inst_freq) = ret.unwrapped
    /\ \A t \in 1..Len(args.phase) : \A f \in 1..Len(args.phase[t]) :
          /\ (ret.phase[t][f] - args.phase[t][f]) % (2 * Pi) = 0
          /\ (ret.unwrapped[t][f] - args.phase[t][f]) % (2 * Pi) = 0

\* C16 as stated: the recovered phase lies in (-pi, pi] and is congruent
\* modulo 2*pi to the phase that was differenced.
C16_AsStated ==
    pc = "recovered" =>
        /\ \A t \in 1..Len(ret.phase) : \A f \in 1..Len(ret.phase[t]) :
              0 - Pi < ret.phase[t][f] /\ ret.phase[t][f] <= Pi
        /\ PhaseCongruent

\* C16: the recovered phase lies in [-pi, pi), closed below and open above,
\* and is congruent modulo 2*pi to the phase that was differenced; a phase of
\* pi comes back as -pi.
C16_WrappedPhase ==
    pc = "recovered" =>
        /\ \A t \in 1..Len(ret.phase) : \A f \in 1..Len(ret.phase[t]) :
              /\ 0 - Pi <= ret.phase[t][f]
              /\ ret.phase[t][f] < Pi
              /\ args.phase[t][f] = Pi => ret.phase[t][f] = 0 - Pi
              /\ args.phase[t][f] < Pi => ret.phase[t][f] = args.phase[t][f]
        /\ PhaseCongruent

\* A phase with a jump that np.unwrap corrects and an entry equal to pi,
\* recovered over two frames.
C16_Witness ==
    /\ pc = "recovered"
    /\ Len(args.phase) = 2
    /\ ret.unwrapped # args.phase
    /\ \E f \in 1..Len(args.phase[2]) :
          /\ args.phase[2][f] = Pi
          /\ ret.phase[2][f] = 0 - Pi
          /\ ret.inst_freq[2][f] # 0


\* Interior samples (1-based): those that every window position of their
\* residue class reaches, below the length of the waveform.
InteriorSamples ==
    {p \in 1..Len(args.waveform) : p > FrameLength - args.frame_step}

\* The frames (1-based) that add into output sample p.
CoveringFrames(p) ==
    {f \in 1..(Len(args.waveform) \div args.frame_step) :
        /\ (f - 1) * args.frame_step < p
        /\ p <= (f - 1) * args.frame_step + FrameLength}

Sample(p) == IF p <= Len(args.waveform) THEN args.waveform[p] ELSE 0

\* The Nyquist coefficient of frame f of the windowed waveform, the one the
\* forward transform discards.
NyquistOf(f) ==
    LET at(n) == hamming_window[n] * Sample((f - 1) * args.frame_step + n)
    IN  at(1) - at(2) + at(3) - at(4)

\* The interior samples all of whose frames lie inside the waveform, so
\* that no zero padding at the end takes part either.
InnerSamples ==
    {p \in InteriorSamples :
        \A f \in CoveringFrames(p) :
            (f - 1) * args.frame_step + FrameLength <= Len(args.waveform)}

C21_EqualRows ==
    [][/\ calls' = calls + 1 =>
             /\ call'.Z_rows = Len(call'.X)
             /\ call'.X_gen_rows = Len(call'.X)
             /\ call'.alpha_rows = Len(call'.X)
       /\ Len(exports') = Len(exports) + 1 =>
             /\ exports'[Len(exports')].z_rows
                   = Len(exports'[Len(exports')].X_real)
             /\ exports'[Len(exports')].generations
                   = Len(exports'[Len(exports')].X_real)
      ]_vars

\* A step on a final batch shorter than batch_size, after an export of fewer
\* real examples than batch_size, with equally many generated ones in both.
C21_Witness ==
    /\ calls >= 2
    /\ Len(call.X) >= 1
    /\ Len(call.X) < cfg.batch_size
    /\ call.X_gen_rows = Len(call.X)
    /\ call.alpha_rows = Len(call.X)
    /\ Len(exports) >= 1
    /\ Len(exports[1].X_real) >= 1
    /\ Len(exports[1].X_real) < cfg.batch_size
    /\ exports[1].generations = Len(exports[1].X_real)


\* The magnitude channel an inverse has built, without the padded bin.
InverseMagnitude == TruncateNyquist(ret.inverse[1])

\* The forward magnitude is log(. + epsilon) of the mel scaled magnitude.
ForwardMelThenLog ==
    \A k \in 1..Len(ret.forward[1]) :
        /\ ret.forward[1][k].op = "log_eps"
        /\ ret.forward[1][k].of.op = "mel"

\* The inverse took exp(.) - epsilon of the forward magnitude first and put
\* the result on the linear scale afterwards.
ExpThenMelToLinear ==
    \A k \in 1..Len(InverseMagnitude) :
        /\ InverseMagnitude[k].op = "mel_pinv"
        /\ InverseMagnitude[k].of = Elementwise("exp_eps", ret.forward[1])

\* The inverse put the logarithmic magnitude on the linear scale first and
\* took exp(.) - epsilon afterwards.
MelToLinearThenExp ==
    \A k \in 1..Len(InverseMagnitude) :
        /\ InverseMagnitude[k].op = "exp_eps"
        /\ InverseMagnitude[k].of.op = "mel_pinv"
        /\ InverseMagnitude[k].of.of = ret.forward[1]

\* C22: for a magnitude made with n_mel_bins and log_magnitude (mel scaling,
\* then the logarithm), spectogram_2_waveform and magnitude_2_waveform both
\* undo the logarithm first and the mel scaling second.
C22_InverseOrder ==
    (pc = "inverted" /\ args.fn \in {"spectogram", "magnitude"}
       /\ args.n_mel_bins # 0 /\ args.log_magnitude) =>
        /\ ForwardMelThenLog
        /\ ExpThenMelToLinear

\* What the two inverses do: magnitude_2_waveform undoes the steps in
\* reverse order, spectogram_2_waveform in the forward transform's order.
C22_OrdersDiffer ==
    (pc = "inverted" /\ args.n_mel_bins # 0 /\ args.log_magnitude) =>
        /\ args.fn = "magnitude" => ForwardMelThenLog /\ ExpThenMelToLinear
        /\ args.fn = "spectogram" => ForwardMelThenLog /\ MelToLinearThenExp

====
